---- MODULE Spec2Model ----
(***************************************************************************)
(* Model of openfisca_survey_manager/surveys.py: the Survey class, its     *)
(* class-level attributes, its JSON (de)serialisation, the table registry, *)
(* the column index built by find_tables and the retrieval of get_values.  *)
(*                                                                         *)
(* Python objects that can be aliased (the dict held by Survey.tables and  *)
(* the per-table attribute dicts it holds) live in a heap and are referred *)
(* to by identity.  Column names are sequences of one-character strings so *)
(* that str.lower() and the ident regular expression are computed.         *)
(***************************************************************************)
EXTENDS Integers, Sequences, FiniteSets, TLC

VARIABLES
    surveys,        \* the Survey instances, in order of construction
    documents,      \* the dicts returned by to_json that the caller holds
    docFrom,        \* history: which Survey each document was made from, and
                    \* whether any dict was mutated since
    outer,          \* heap: the dicts / OrderedDicts used as Survey.tables
    inner,          \* heap: the per-table attribute dicts
    tables_index,   \* Survey.tables_index, the class attribute (line 57)
    calls,          \* history: get_columns computations per Survey and table
    memo,           \* history: one remembered find_tables call that returned
    last,           \* the last call and its outcome
    ops             \* number of calls made so far

vars == <<surveys, documents, docFrom, outer, inner, tables_index, calls, memo, last, ops>>

----------------------------------------------------------------------------
(* Bounds of the model *)

MaxOps == 4
MaxSurveys == 2
MaxDocuments == 1
MaxCalls == 2

----------------------------------------------------------------------------
(* Values *)

None == "<None>"
Absent == "<absent>"

EmptyMap == [k \in {} |-> None]

Range(s) == {s[i] : i \in DOMAIN s}

\* dict.get(key): None when the key is missing
DictGet(value) == IF value = Absent THEN None ELSE value

----------------------------------------------------------------------------
(* Column names, str.lower() and ident_re *)

UpperChars == <<"A","B","C","D","E","F","G","H","I","J","K","L","M",
                "N","O","P","Q","R","S","T","U","V","W","X","Y","Z">>
LowerChars == <<"a","b","c","d","e","f","g","h","i","j","k","l","m",
                "n","o","p","q","r","s","t","u","v","w","x","y","z">>
Digits == {"0","1","2","3","4","5","6","7","8","9"}

LowerChar(ch) ==
    IF \E i \in DOMAIN UpperChars : UpperChars[i] = ch
    THEN LowerChars[CHOOSE i \in DOMAIN UpperChars : UpperChars[i] = ch]
    ELSE ch

\* column_name.lower()
Lower(column_name) == [i \in DOMAIN column_name |-> LowerChar(column_name[i])]

\* ident_re.match(column_name) is not None, ident_re = (?i)ident\d{2,4}$
\* match() anchors at the start; $ matches at the end of the string or just
\* before a newline that ends it.
IdentMatch(column_name) ==
    \E n \in 2..4 :
        /\ Len(column_name) >= 5 + n
        /\ Lower(SubSeq(column_name, 1, 5)) = <<"i","d","e","n","t">>
        /\ \A i \in 6..(5 + n) : column_name[i] \in Digits
        /\ \/ Len(column_name) = 5 + n
           \/ /\ Len(column_name) = 5 + n + 1
              /\ column_name[5 + n + 1] = "\n"

ident == <<"i","d","e","n","t">>

Col_IDENT08 == <<"I","D","E","N","T","0","8">>
Col_ident08 == <<"i","d","e","n","t","0","8">>
Col_ident09 == <<"i","d","e","n","t","0","9">>
Col_Salaire == <<"S","a","l","a","i","r","e">>
Col_salaire == <<"s","a","l","a","i","r","e">>
Col_a == <<"a">>
Col_b == <<"b">>
Col_c == <<"c">>

\* None where a column name or a list of column names is expected
NoneName == <<None>>
NoneRequest == {NoneName}

ColumnNames ==
    {Col_IDENT08, Col_ident08, Col_ident09, Col_Salaire, Col_salaire,
     Col_a, Col_b, Col_c, ident}

----------------------------------------------------------------------------
(* The external HDF5 files: path -> (key -> column names of the stored      *)
(* DataFrame).  The program only reads them.                                *)

Paths == {"p1", "p2"}

StoreFiles ==
    [path \in Paths |->
        IF path = "p1"
        THEN ("T1" :> <<Col_IDENT08, Col_Salaire>>) @@
             ("R1" :> <<Col_ident08, Col_ident09>>)
        ELSE ("T1" :> <<Col_a, Col_c>>) @@
             ("T2" :> <<Col_IDENT08, Col_ident08, Col_b>>)]

HDFStore(path) == StoreFiles[path]

\* str.lower() and ident_re.match() of the column names above, computed once
LowerTable == [column_name \in ColumnNames |-> Lower(column_name)]
IdentTable == [column_name \in ColumnNames |-> IdentMatch(column_name)]

str_lower(column_name) ==
    IF column_name \in DOMAIN LowerTable
    THEN LowerTable[column_name]
    ELSE Lower(column_name)

ident_re_match(column_name) ==
    IF column_name \in DOMAIN IdentTable
    THEN IdentTable[column_name]
    ELSE IdentMatch(column_name)

----------------------------------------------------------------------------
(* Inputs *)

TableNames == {"T1", "T2"}
\* lexicographic order of the table names, used by sorted()
TableOrder == <<"T1", "T2">>

\* keyword arguments of insert_table
TableKwargs ==
    { "Rdata_table" :> "R1",
      ("Rdata_table" :> "R9") @@ ("year" :> "2008"),
      "year" :> "2009" }

\* arguments of Survey(name, label, hdf5_file_path, **kwargs)
InitArgs ==
    { [name |-> None, label |-> "l", hdf5_file_path |-> "p1", kwargs |-> EmptyMap],
      [name |-> "", label |-> None, hdf5_file_path |-> None, kwargs |-> EmptyMap],
      [name |-> "s", label |-> "l", hdf5_file_path |-> "p1",
       kwargs |-> ("source" :> "insee")],
      [name |-> "s", label |-> None, hdf5_file_path |-> "p2", kwargs |-> EmptyMap] }

\* parsed content of a metadata file read by load(); tables maps a table name
\* to its attribute dict
Files ==
    { [name |-> Absent, label |-> "l", hdf5_file_path |-> "p1", tables |-> EmptyMap,
       informations |-> EmptyMap],
      [name |-> None, label |-> "l", hdf5_file_path |-> "p1", tables |-> EmptyMap,
       informations |-> EmptyMap],
      [name |-> "", label |-> Absent, hdf5_file_path |-> Absent, tables |-> EmptyMap,
       informations |-> EmptyMap],
      [name |-> "s", label |-> "l", hdf5_file_path |-> "p1",
       tables |-> ("T2" :> ("Rdata_table" :> "R1")),
       informations |-> ("source" :> "insee")],
      [name |-> "s", label |-> None, hdf5_file_path |-> "p2", tables |-> EmptyMap,
       informations |-> ("label" :> "x")] }

\* (variable, tables) of find_tables; <<None>> asks for the registered tables
FindTablesArgs ==
    { [variable |-> NoneName, tables |-> <<"T1">>],
      [variable |-> Col_Salaire, tables |-> <<None>>],
      [variable |-> ident, tables |-> <<None>>],
      [variable |-> Col_a, tables |-> <<"T2", "T1">>] }

\* (variables, lowercase, rename_ident) of get_values; NoneRequest asks for
\* the whole table
GetValuesArgs ==
    { [variables |-> NoneRequest, lowercase |-> TRUE, rename_ident |-> TRUE],
      [variables |-> {Col_a, Col_b}, lowercase |-> TRUE, rename_ident |-> FALSE],
      [variables |-> {Col_a}, lowercase |-> TRUE, rename_ident |-> TRUE],
      [variables |-> {ident, Col_salaire}, lowercase |-> TRUE, rename_ident |-> TRUE],
      [variables |-> {ident, Col_ident09}, lowercase |-> FALSE, rename_ident |-> TRUE],
      [variables |-> {Col_Salaire}, lowercase |-> TRUE, rename_ident |-> TRUE] }

----------------------------------------------------------------------------
(* Dicts *)

\* d[key] = val
SetItem(d, key, val) ==
    [k \in DOMAIN d \cup {key} |-> IF k = key THEN val ELSE d[k]]

InsertAt(seq, pos, x) ==
    SubSeq(seq, 1, pos - 1) \o <<x>> \o SubSeq(seq, pos, Len(seq))

\* A dict used as Survey.tables: its keys in iteration order, the identity
\* of the attribute dict of each key, and whether it is an OrderedDict.
NewDict == [keys |-> <<>>, item |-> EmptyMap, ordered |-> FALSE]

\* sorted(keys)
Sorted(keys) ==
    LET In(x) == x \in keys IN SelectSeq(TableOrder, In)

\* what a Survey.tables dict holds, attribute dicts read through
Registry(o) ==
    [t \in DOMAIN outer[o].item |-> inner[outer[o].item[t]]]

\* the observable content of a Survey
View(s) ==
    [name |-> surveys[s].name,
     label |-> surveys[s].label,
     hdf5_file_path |-> surveys[s].hdf5_file_path,
     tables |-> Registry(surveys[s].tables),
     informations |-> surveys[s].informations]

----------------------------------------------------------------------------
(* class Survey *)

\* class attributes (lines 53-55)
ClassHdf5FilePath == None
ClassLabel == None

\* Survey.__init__: tables is the identity of the dict made at line 63
Survey__init__(name, label, hdf5_file_path, kwargs, tables) ==
    IF name = None
    THEN [exc |-> "AssertionError"]
    ELSE [exc |-> "",
          self |-> [name |-> name,
                    tables |-> tables,
                    label |-> IF label # None THEN label ELSE ClassLabel,
                    hdf5_file_path |-> IF hdf5_file_path # None
                                       THEN hdf5_file_path
                                       ELSE ClassHdf5FilePath,
                    informations |-> kwargs]]

\* names that cls(name = ..., label = ..., hdf5_file_path = ..., **informations)
\* already binds: a key of informations among them is a TypeError
BoundNames == {"self", "name", "label", "hdf5_file_path"}

\* Survey.create_from_json: survey_json.tables is the identity of the dict
\* under the 'tables' key, which becomes self.tables as it is.  The dict
\* made by __init__ at line 63 is dropped at line 88 (tables argument 0).
create_from_json(survey_json) ==
    IF DOMAIN survey_json.informations \cap BoundNames # {}
    THEN [exc |-> "TypeError"]
    ELSE LET made == Survey__init__(DictGet(survey_json.name),
                                    DictGet(survey_json.label),
                                    DictGet(survey_json.hdf5_file_path),
                                    survey_json.informations, 0)
         IN  IF made.exc # ""
             THEN made
             ELSE [exc |-> "",
                   self |-> [made.self EXCEPT !.tables = survey_json.tables]]

\* to_json writing the name under the 'label' key
to_json_LabelFromName(self, newTables) ==
    [document |-> [hdf5_file_path |-> self.hdf5_file_path,
                   label |-> self.name,
                   name |-> self.name,
                   tables |-> newTables,
                   informations |-> self.informations],
     tables |-> [keys |-> Sorted(DOMAIN outer[self.tables].item),
                 item |-> outer[self.tables].item,
                 ordered |-> TRUE]]

\* Survey.to_json: the returned document and the OrderedDict made for its
\* 'tables' key, which holds the same attribute dicts as self.tables
to_json(self, newTables) ==
    [document |-> [hdf5_file_path |-> self.hdf5_file_path,
                   label |-> self.label,
                   name |-> self.name,
                   tables |-> newTables,
                   informations |-> self.informations],
     tables |-> [keys |-> Sorted(DOMAIN outer[self.tables].item),
                 item |-> outer[self.tables].item,
                 ordered |-> TRUE]]

\* insert_table replacing the attribute dict by the keyword arguments
InsertItems_Replace(d, kwargs, keys) == kwargs

\* the loop of Survey.insert_table (lines 188-189) on one attribute dict
RECURSIVE InsertItems(_, _, _)
InsertItems(d, kwargs, keys) ==
    IF keys = {}
    THEN d
    ELSE LET key == CHOOSE k \in keys : TRUE
         IN  InsertItems(SetItem(d, key, kwargs[key]), kwargs, keys \ {key})

\* Survey.get_columns
get_columns(self, table) ==
    IF self.hdf5_file_path = None
    THEN [exc |-> "IOError", columns |-> <<>>]
    ELSE IF table \notin DOMAIN HDFStore(self.hdf5_file_path)
    THEN [exc |-> "AssertionError", columns |-> <<>>]
    ELSE [exc |-> "", columns |-> HDFStore(self.hdf5_file_path)[table]]

\* the tables_index a Survey reads as self.tables_index: no instance ever
\* assigns the attribute, so it is the class attribute
TablesIndexOf(s) == tables_index

\* find_tables starting a new index at every computation
CacheColumns_Reset(index, table, columns) == table :> columns

\* index[table] = columns
CacheColumns(index, table, columns) == SetItem(index, table, columns)

\* the loop of Survey.find_tables (lines 101-105): index is tables_index as
\* it stands, computed the tables whose columns were read from the store
RECURSIVE FindLoop(_, _, _, _, _, _)
FindLoop(self, variable, tables, index, container_tables, computed) ==
    IF tables = <<>>
    THEN [exc |-> "", index |-> index, container_tables |-> container_tables,
          computed |-> computed, failed |-> ""]
    ELSE LET table == Head(tables)
             got == get_columns(self, table)
         IN  IF table \notin DOMAIN index /\ got.exc # ""
             THEN [exc |-> got.exc, index |-> index, container_tables |-> <<>>,
                   computed |-> computed, failed |-> table]
             ELSE LET index2 == IF table \in DOMAIN index
                                THEN index
                                ELSE CacheColumns(index, table, got.columns)
                      found == IF variable \in Range(index2[table])
                               THEN Append(container_tables, table)
                               ELSE container_tables
                  IN  FindLoop(self, variable, Tail(tables), index2, found,
                               IF table \in DOMAIN index
                               THEN computed
                               ELSE Append(computed, table))

\* Survey.find_tables
find_tables(s, variable, tables) ==
    IF variable = NoneName
    THEN [exc |-> "AssertionError", index |-> TablesIndexOf(s),
          container_tables |-> <<>>, computed |-> <<>>, failed |-> ""]
    ELSE FindLoop(surveys[s], variable,
                  IF tables = <<None>> THEN outer[surveys[s].tables].keys ELSE tables,
                  TablesIndexOf(s), <<>>, <<>>)

\* get_values trying the Rdata_table attribute before the table name
ResolveTable_RdataFirst(self, table) ==
    LET store == HDFStore(self.hdf5_file_path)
        tables == Registry(self.tables)
    IN  IF self.hdf5_file_path = None
        THEN [exc |-> "IOError", key |-> None]
        ELSE IF /\ table \in DOMAIN tables
                /\ "Rdata_table" \in DOMAIN tables[table]
                /\ tables[table]["Rdata_table"] \in DOMAIN store
        THEN [exc |-> "", key |-> tables[table]["Rdata_table"]]
        ELSE IF table \in DOMAIN store
        THEN [exc |-> "", key |-> table]
        ELSE [exc |-> "KeyError", key |-> None]

\* lines 155-159 of Survey.get_values: the key of the store that is read
ResolveTable(self, table) ==
    LET store == HDFStore(self.hdf5_file_path)
        tables == Registry(self.tables)
    IN  IF self.hdf5_file_path = None
        THEN [exc |-> "IOError", key |-> None]
        ELSE IF table \in DOMAIN store
        THEN [exc |-> "", key |-> table]
        ELSE IF table \notin DOMAIN tables
        THEN [exc |-> "KeyError", key |-> None]
        ELSE IF "Rdata_table" \notin DOMAIN tables[table]
        THEN [exc |-> "KeyError", key |-> None]
        ELSE IF tables[table]["Rdata_table"] \notin DOMAIN store
        THEN [exc |-> "KeyError", key |-> None]
        ELSE [exc |-> "", key |-> tables[table]["Rdata_table"]]

\* DataFrame.rename(columns = mapping): every label is mapped on its own, so
\* labels that become equal stay as separate columns
RenameColumns(columns, mapping) ==
    [i \in DOMAIN columns |->
        IF columns[i] \in DOMAIN mapping THEN mapping[columns[i]] ELSE columns[i]]

\* lines 161-163
LowercaseColumns(columns) ==
    RenameColumns(columns, [column_name \in Range(columns) |-> str_lower(column_name)])

\* get_values renaming the first column whether ident_re matches it or not
RenameIdent_FirstColumn(columns) ==
    IF columns # <<>> THEN RenameColumns(columns, columns[1] :> ident) ELSE columns

\* lines 165-170: the first column, in order, that ident_re matches
RenameIdent(columns) ==
    IF \E i \in DOMAIN columns : ident_re_match(columns[i])
    THEN LET first == CHOOSE i \in DOMAIN columns :
                          /\ ident_re_match(columns[i])
                          /\ \A j \in 1..(i - 1) : ~ident_re_match(columns[j])
         IN  RenameColumns(columns, columns[first] :> ident)
    ELSE columns

\* get_values raising only when none of the variables is a column
SelectVariables_AnyPresent(columns, variables) ==
    IF variables = NoneRequest
    THEN [exc |-> "", missing |-> {}, names |-> Range(columns), width |-> Len(columns)]
    ELSE LET diff == variables \ Range(columns)
             selected == variables \cap Range(columns)
         IN  IF selected = {}
             THEN [exc |-> "Exception", missing |-> diff, names |-> {}, width |-> 0]
             ELSE [exc |-> "", missing |-> {}, names |-> selected,
                   width |-> Cardinality({i \in DOMAIN columns : columns[i] \in selected})]

\* lines 172-180: names are the column names of the returned DataFrame and
\* width the number of its columns (their order is that of a Python set)
SelectVariables(columns, variables) ==
    IF variables = NoneRequest
    THEN [exc |-> "", missing |-> {}, names |-> Range(columns), width |-> Len(columns)]
    ELSE LET diff == variables \ Range(columns)
             selected == variables \cap Range(columns)
         IN  IF diff # {}
             THEN [exc |-> "Exception", missing |-> diff, names |-> {}, width |-> 0]
             ELSE [exc |-> "", missing |-> {}, names |-> selected,
                   width |-> Cardinality({i \in DOMAIN columns : columns[i] \in selected})]

\* the column names of the DataFrame after lines 161-170
Normalize(columns, lowercase, rename_ident) ==
    LET lowered == IF lowercase THEN LowercaseColumns(columns) ELSE columns
    IN  IF rename_ident THEN RenameIdent(lowered) ELSE lowered

\* Survey.get_values
get_values(s, variables, table, lowercase, rename_ident) ==
    LET self == surveys[s]
        resolved == ResolveTable(self, table)
    IN  IF resolved.exc # ""
        THEN [exc |-> resolved.exc, key |-> None, columns |-> <<>>,
              missing |-> {}, names |-> {}, width |-> 0]
        ELSE LET columns == Normalize(HDFStore(self.hdf5_file_path)[resolved.key],
                                      lowercase, rename_ident)
                 selected == SelectVariables(columns, variables)
             IN  [exc |-> selected.exc, key |-> resolved.key, columns |-> columns,
                  missing |-> selected.missing, names |-> selected.names,
                  width |-> selected.width]

----------------------------------------------------------------------------
(* The calls *)

NoCall ==
    [op |-> "", at |-> 0, s |-> 0, d |-> 0, exc |-> "", name |-> "", table |-> "",
     kwargs |-> EmptyMap, variable |-> <<>>, tables |-> <<>>, variables |-> {},
     lowercase |-> FALSE, rename_ident |-> FALSE, key |-> "", columns |-> <<>>,
     container_tables |-> <<>>, missing |-> {}, names |-> {}, width |-> 0,
     cached |-> {}]

Init ==
    /\ surveys = <<>>
    /\ documents = <<>>
    /\ docFrom = <<>>
    /\ outer = <<>>
    /\ inner = <<>>
    /\ tables_index = EmptyMap
    /\ calls = [s \in 1..MaxSurveys |-> [t \in TableNames |-> 0]]
    /\ memo = NoCall
    /\ last = NoCall
    /\ ops = 0

\* Survey(name, label, hdf5_file_path, **kwargs)
Construct(args) ==
    LET name == args.name
        made == Survey__init__(name, args.label, args.hdf5_file_path, args.kwargs,
                               Len(outer) + 1)
    IN  /\ ops < MaxOps
        /\ Len(surveys) < MaxSurveys
        /\ ops' = ops + 1
        /\ IF made.exc # ""
           THEN /\ last' = [NoCall EXCEPT !.at = ops + 1, !.op = "Construct", !.name = name,
                                          !.exc = made.exc]
                /\ UNCHANGED <<surveys, outer>>
           ELSE /\ surveys' = Append(surveys, made.self)
                /\ outer' = Append(outer, NewDict)
                /\ last' = [NoCall EXCEPT !.at = ops + 1, !.op = "Construct", !.name = name,
                                          !.s = Len(surveys) + 1]
        /\ UNCHANGED <<documents, docFrom, inner, tables_index, calls, memo>>

\* the orders in which a plain dict may iterate over the given keys
Orders(keys) ==
    {order \in [1..Cardinality(keys) -> keys] :
        \A i, j \in DOMAIN order : i # j => order[i] # order[j]}

\* Survey.load: json.load builds the document, its 'tables' dict and one
\* attribute dict per table, then create_from_json is applied to it
Load(body) ==
    \E order \in Orders(DOMAIN body.tables) :
        LET name == body.name
            survey_json == [name |-> name, label |-> body.label,
                            hdf5_file_path |-> body.hdf5_file_path,
                            tables |-> Len(outer) + 1,
                            informations |-> body.informations]
            made == create_from_json(survey_json)
        IN  /\ ops < MaxOps
            /\ Len(surveys) < MaxSurveys
            /\ ops' = ops + 1
            /\ IF made.exc # ""
               THEN /\ last' = [NoCall EXCEPT !.at = ops + 1, !.op = "Load", !.name = name,
                                              !.exc = made.exc]
                    /\ UNCHANGED <<surveys, outer, inner>>
               ELSE /\ surveys' = Append(surveys, made.self)
                    /\ outer' = Append(outer,
                            [keys |-> order,
                             item |-> [t \in DOMAIN body.tables |->
                                          Len(inner) + CHOOSE i \in DOMAIN order : order[i] = t],
                             ordered |-> FALSE])
                    /\ inner' = inner \o [i \in DOMAIN order |-> body.tables[order[i]]]
                    /\ last' = [NoCall EXCEPT !.at = ops + 1, !.op = "Load", !.name = name,
                                              !.s = Len(surveys) + 1]
            /\ UNCHANGED <<documents, docFrom, tables_index, calls, memo>>

\* Survey.to_json, the caller keeping the document
ToDocument(s) ==
    LET made == to_json(surveys[s], Len(outer) + 1)
    IN  /\ ops < MaxOps
        /\ Len(documents) < MaxDocuments
        /\ ops' = ops + 1
        /\ documents' = Append(documents, made.document)
        /\ outer' = Append(outer, made.tables)
        /\ docFrom' = Append(docFrom, [origin |-> s, fresh |-> TRUE])
        /\ last' = [NoCall EXCEPT !.at = ops + 1, !.op = "ToDocument", !.s = s,
                                  !.d = Len(documents) + 1]
        /\ UNCHANGED <<surveys, inner, tables_index, calls, memo>>

\* Survey.create_from_json on a document the caller holds
FromDocument(d) ==
    LET made == create_from_json(documents[d])
    IN  /\ ops < MaxOps
        /\ Len(surveys) < MaxSurveys
        /\ ops' = ops + 1
        /\ IF made.exc # ""
           THEN /\ last' = [NoCall EXCEPT !.at = ops + 1, !.op = "FromDocument", !.d = d,
                                          !.name = documents[d].name,
                                          !.exc = made.exc]
                /\ UNCHANGED surveys
           ELSE /\ surveys' = Append(surveys, made.self)
                /\ last' = [NoCall EXCEPT !.at = ops + 1, !.op = "FromDocument", !.d = d,
                                          !.name = documents[d].name,
                                          !.s = Len(surveys) + 1]
        /\ UNCHANGED <<documents, docFrom, outer, inner, tables_index, calls, memo>>

\* Survey.insert_table on the heap: pos is where a plain dict comes to
\* iterate over a new key (an OrderedDict puts it last)
insert_table(self, name, kwargs, pos) ==
    LET tables == outer[self.tables]
        present == name \in DOMAIN tables.item
        id == IF present THEN tables.item[name] ELSE Len(inner) + 1
        outer1 == IF present
                  THEN outer
                  ELSE [outer EXCEPT ![self.tables] =
                           [keys |-> InsertAt(tables.keys, pos, name),
                            item |-> SetItem(tables.item, name, id),
                            ordered |-> tables.ordered]]
        inner1 == IF present THEN inner ELSE Append(inner, EmptyMap)
    IN  [outer |-> outer1,
         inner |-> [inner1 EXCEPT ![id] = InsertItems(@, kwargs, DOMAIN kwargs)]]

RegisterTable(s, name, kwargs) ==
    \E pos \in 1..(Len(outer[surveys[s].tables].keys) + 1) :
        LET tables == outer[surveys[s].tables]
            heap == insert_table(surveys[s], name, kwargs, pos)
        IN  /\ ops < MaxOps
            /\ IF name \in DOMAIN tables.item
               THEN pos = 1
               ELSE tables.ordered => pos = Len(tables.keys) + 1
            /\ ops' = ops + 1
            /\ outer' = heap.outer
            /\ inner' = heap.inner
            /\ docFrom' = [d \in DOMAIN docFrom |-> [docFrom[d] EXCEPT !.fresh = FALSE]]
            /\ last' = [NoCall EXCEPT !.at = ops + 1, !.op = "RegisterTable", !.s = s,
                                      !.table = name, !.kwargs = kwargs]
            /\ UNCHANGED <<surveys, documents, tables_index, calls, memo>>

Min(a, b) == IF a < b THEN a ELSE b

FindTables(s, args) ==
    LET variable == args.variable
        tables == args.tables
        found == find_tables(s, variable, tables)
        asked == IF tables = <<None>> THEN outer[surveys[s].tables].keys ELSE tables
        call == [NoCall EXCEPT !.at = ops + 1, !.op = "FindTables", !.s = s, !.variable = variable,
                               !.tables = asked, !.exc = found.exc,
                               !.table = found.failed,
                               !.container_tables = found.container_tables,
                               !.cached = Range(asked) \cap DOMAIN TablesIndexOf(s)]
    IN  /\ ops < MaxOps
        /\ ops' = ops + 1
        /\ tables_index' = found.index
        /\ calls' = [calls EXCEPT ![s] =
                        [t \in TableNames |->
                            IF t \in Range(found.computed)
                            THEN Min(calls[s][t] + 1, MaxCalls)
                            ELSE calls[s][t]]]
        /\ last' = call
        /\ \/ memo' = memo
           \/ /\ memo.op = ""
              /\ found.exc = ""
              /\ memo' = call
        /\ UNCHANGED <<surveys, documents, docFrom, outer, inner>>

GetValues(s, table, args) ==
    LET variables == args.variables
        lowercase == args.lowercase
        rename_ident == args.rename_ident
        got == get_values(s, variables, table, lowercase, rename_ident)
    IN  /\ ops < MaxOps
        /\ ops' = ops + 1
        /\ last' = [NoCall EXCEPT !.at = ops + 1, !.op = "GetValues", !.s = s, !.table = table,
                                  !.variables = variables, !.lowercase = lowercase,
                                  !.rename_ident = rename_ident, !.exc = got.exc,
                                  !.key = got.key, !.columns = got.columns,
                                  !.missing = got.missing, !.names = got.names,
                                  !.width = got.width]
        /\ UNCHANGED <<surveys, documents, docFrom, outer, inner, tables_index,
                       calls, memo>>

Next ==
    \/ \E args \in InitArgs : Construct(args)
    \/ \E body \in Files : Load(body)
    \/ \E s \in DOMAIN surveys : ToDocument(s)
    \/ \E d \in DOMAIN documents : FromDocument(d)
    \/ \E s \in DOMAIN surveys, name \in TableNames, kwargs \in TableKwargs :
          RegisterTable(s, name, kwargs)
    \/ \E s \in DOMAIN surveys, args \in FindTablesArgs : FindTables(s, args)
    \/ \E s \in DOMAIN surveys, table \in TableNames, args \in GetValuesArgs :
          GetValues(s, table, args)

Spec == Init /\ [][Next]_vars

----------------------------------------------------------------------------
(* Properties *)

\* the content of a document the caller holds, attribute dicts read through
DocView(d) ==
    [name |-> documents[d].name,
     label |-> documents[d].label,
     hdf5_file_path |-> documents[d].hdf5_file_path,
     tables |-> Registry(documents[d].tables),
     informations |-> documents[d].informations]

IsCreation(call) == call.op \in {"Construct", "Load", "FromDocument"}

\* C1: every Survey has its own column index: a Survey that was just
\* constructed or loaded sees an empty tables_index, an entry that find_tables
\* computed for one Survey is not in the index of a Survey that never computed
\* it, and find_tables answers from the index only for tables the same Survey
\* computed.
C1_OwnTablesIndex ==
    /\ (IsCreation(last) /\ last.exc = "") => TablesIndexOf(last.s) = EmptyMap
    /\ \A s, r \in DOMAIN surveys : \A t \in TableNames :
          (calls[s][t] > 0 /\ calls[r][t] = 0) => t \notin DOMAIN TablesIndexOf(r)
    /\ last.op = "FindTables" => \A t \in last.cached : calls[last.s][t] > 0

SameFindTables(a, b) ==
    /\ a.op = "FindTables" /\ b.op = "FindTables"
    /\ a.s = b.s /\ a.variable = b.variable /\ a.tables = b.tables

C2_Step ==
    /\ \A s \in DOMAIN surveys : \A t \in DOMAIN TablesIndexOf(s) :
          /\ t \in DOMAIN TablesIndexOf(s)'
          /\ TablesIndexOf(s)'[t] = TablesIndexOf(s)[t]
    /\ \A s \in DOMAIN surveys : \A t \in TableNames : calls'[s][t] <= 1
    /\ last'.op = "FindTables" =>
          \A t \in last'.cached : calls'[last'.s][t] = calls[last'.s][t]
    /\ (last'.op = "FindTables" /\ last'.exc = "" /\ SameFindTables(memo, last')) =>
          last'.container_tables = memo.container_tables

\* C2: a find_tables call that repeats an earlier call (same Survey, variable
\* and tables) returns the same list; get_columns is computed at most once
\* per Survey and table; a table already in tables_index is answered without
\* a computation; an entry of tables_index is never removed or changed.
C2_FindTablesCached == [][C2_Step]_vars

\* a find_tables call returned tables, entirely from the index, repeating a
\* remembered earlier call
C2_Witness ==
    /\ last.op = "FindTables" /\ last.exc = ""
    /\ SameFindTables(memo, last) /\ memo.at < last.at
    /\ last.container_tables # <<>>
    /\ last.cached = Range(last.tables)

\* C3: create_from_json applied to the document to_json made of a Survey
\* succeeds and gives a Survey with the same name, label, store path, table
\* registry and informations.
C3_RoundTrip ==
    (last.op = "FromDocument" /\ docFrom[last.d].fresh) =>
        /\ last.exc = ""
        /\ View(last.s) = View(docFrom[last.d].origin)

C3_Witness ==
    /\ last.op = "FromDocument" /\ docFrom[last.d].fresh /\ last.exc = ""
    /\ last.s # docFrom[last.d].origin
    /\ View(last.s).label # None
    /\ View(last.s).hdf5_file_path # None
    /\ DOMAIN View(last.s).tables # {}
    /\ DOMAIN View(last.s).informations # {}

\* the column names of the DataFrame get_values read, before any renaming
RawColumns(call) == HDFStore(surveys[call.s].hdf5_file_path)[call.key]

\* C4: get_values with a list of variables raises the missing-variables
\* exception with exactly the requested variables that are not columns of the
\* resolved table (as renamed under the flags) when there are any, and
\* otherwise returns exactly the requested columns.
C4_MissingVariables ==
    (last.op = "GetValues" /\ last.variables # NoneRequest
        /\ last.exc \in {"", "Exception"}) =>
        LET available == Range(Normalize(RawColumns(last), last.lowercase,
                                         last.rename_ident))
            diff == last.variables \ available
        IN  /\ diff # {} => (last.exc = "Exception" /\ last.missing = diff)
            /\ diff = {} => (last.exc = "" /\ last.names = last.variables)

\* {a, b} asked of a table with columns a and c: b is missing
C4_Witness ==
    /\ last.op = "GetValues" /\ last.exc = "Exception"
    /\ last.variables = {Col_a, Col_b}
    /\ Range(RawColumns(last)) = {Col_a, Col_c}
    /\ last.missing = {Col_b}

\* C5: get_values with default flags lowercases every column name and renames
\* to ident only the first column whose name is ident followed by 2 to 4
\* digits; every other column keeps its lowercased name.
C5_SingleIdentRename ==
    (last.op = "GetValues" /\ last.exc \in {"", "Exception"}
        /\ last.lowercase /\ last.rename_ident) =>
        LET raw == RawColumns(last)
            lowered == [i \in DOMAIN raw |-> Lower(raw[i])]
            matches == {i \in DOMAIN raw : IdentMatch(lowered[i])}
        IN  last.columns =
                [i \in DOMAIN raw |->
                    IF i \in matches /\ \A j \in matches : i <= j
                    THEN ident
                    ELSE lowered[i]]

\* C6: get_values reads the store under the table name itself when the store
\* has it, otherwise under the Rdata_table attribute of the registered table
\* when the store has that, and raises KeyError in every other case.
C6_ResolveTable ==
    (last.op = "GetValues" /\ surveys[last.s].hdf5_file_path # None) =>
        LET store == HDFStore(surveys[last.s].hdf5_file_path)
            tables == View(last.s).tables
            direct == last.table \in DOMAIN store
            fallback == /\ last.table \in DOMAIN tables
                        /\ "Rdata_table" \in DOMAIN tables[last.table]
                        /\ tables[last.table]["Rdata_table"] \in DOMAIN store
        IN  /\ direct => (last.exc # "KeyError" /\ last.key = last.table)
            /\ (~direct /\ fallback) =>
                  /\ last.exc # "KeyError"
                  /\ last.key = tables[last.table]["Rdata_table"]
            /\ (~direct /\ ~fallback) => last.exc = "KeyError"

\* a table absent from the store was read under its Rdata_table attribute
C6_Witness ==
    /\ last.op = "GetValues" /\ last.exc = ""
    /\ last.table \notin DOMAIN HDFStore(surveys[last.s].hdf5_file_path)
    /\ last.key = View(last.s).tables[last.table]["Rdata_table"]

\* C7: constructing or loading a Survey fails with the assertion error and
\* makes no Survey when the name is missing, None or empty, and succeeds for
\* every other name.
C7_NameRequired ==
    IsCreation(last) =>
        IF last.name \in {Absent, None, ""}
        THEN last.exc = "AssertionError" /\ last.s = 0
        ELSE last.exc = "" /\ last.s # 0

C8_Step ==
    last'.op = "RegisterTable" =>
        \A s \in DOMAIN surveys : s = last'.s =>
            LET before == View(s).tables
                after == View(s)'.tables
                table == last'.table
                kwargs == last'.kwargs
                old == IF table \in DOMAIN before THEN before[table] ELSE EmptyMap
            IN  /\ table \in DOMAIN after
                /\ DOMAIN after[table] = DOMAIN old \cup DOMAIN kwargs
                /\ \A k \in DOMAIN kwargs : after[table][k] = kwargs[k]
                /\ \A k \in DOMAIN old \ DOMAIN kwargs : after[table][k] = old[k]

\* C8: insert_table leaves the table registered with the attributes it had,
\* overridden by the given ones: the given keys hold the given values, every
\* other key the table had keeps its value, and no other key appears.
C8_RegisterTableMerges == [][C8_Step]_vars

\* a table registered with one attribute was registered again with another
C8_Witness ==
    /\ last.op = "RegisterTable"
    /\ \E k \in DOMAIN View(last.s).tables[last.table] : k \notin DOMAIN last.kwargs
    /\ DOMAIN last.kwargs # {}

\* C9: discovery and retrieval agree: when find_tables(v) over the
\* registered tables returned a registered table t, get_values([v], t) with
\* default flags succeeds; and find_tables does not fail on a registered
\* table t for which get_values([v], t) with default flags succeeds.
C9_DiscoveryRetrievalAgree ==
    /\ (/\ last.op = "GetValues" /\ last.lowercase /\ last.rename_ident
        /\ memo.op = "FindTables" /\ memo.s = last.s
        /\ last.variables = {memo.variable}
        /\ last.table \in Range(memo.container_tables)
        /\ last.table \in DOMAIN View(last.s).tables) => last.exc = ""
    /\ (/\ last.op = "FindTables" /\ last.exc = "AssertionError"
        /\ last.table \in DOMAIN View(last.s).tables) =>
            get_values(last.s, {last.variable}, last.table, TRUE, TRUE).exc # ""

\* C9 as amended: when find_tables(v) returned a registered table t whose
\* index entry is the column list get_values reads for t, get_values([v], t)
\* with default flags succeeds if v is lowercase and is not ident followed by
\* 2 to 4 digits; and find_tables fails on a registered table only if the
\* table name is no key of the store.
C9_AgreeWhenNormalised ==
    /\ (/\ last.op = "GetValues" /\ last.lowercase /\ last.rename_ident
        /\ last.exc \in {"", "Exception"}
        /\ memo.op = "FindTables" /\ memo.s = last.s
        /\ last.variables = {memo.variable}
        /\ last.table \in Range(memo.container_tables)
        /\ last.table \in DOMAIN View(last.s).tables
        /\ TablesIndexOf(last.s)[last.table] = RawColumns(last)
        /\ Lower(memo.variable) = memo.variable
        /\ ~IdentMatch(memo.variable)) => last.exc = ""
    /\ (/\ last.op = "FindTables" /\ last.exc = "AssertionError"
        /\ last.table \in DOMAIN View(last.s).tables) =>
            last.table \notin DOMAIN HDFStore(surveys[last.s].hdf5_file_path)

\* a variable found in a registered table was then retrieved from it
C9_Witness ==
    /\ last.op = "GetValues" /\ last.lowercase /\ last.rename_ident
    /\ last.exc = ""
    /\ memo.op = "FindTables" /\ memo.s = last.s /\ memo.at < last.at
    /\ last.variables = {memo.variable}
    /\ last.table \in Range(memo.container_tables)
    /\ last.table \in DOMAIN View(last.s).tables
    /\ TablesIndexOf(last.s)[last.table] = RawColumns(last)

C10_Step ==
    last'.op = "RegisterTable" =>
        \A s \in DOMAIN surveys : \A d \in DOMAIN documents :
            (/\ docFrom[d].origin = s
             /\ last'.s # s
             /\ surveys[last'.s].tables = documents[d].tables) =>
                /\ View(s)' = View(s)
                /\ DocView(d)' = DocView(d)

\* C10: insert_table on a Survey made by create_from_json from the document
\* to_json made of another Survey changes neither the table registry of
\* that other Survey nor the document.
C10_Independent == [][C10_Step]_vars

====
